---------------------------- MODULE Spec2Model ----------------------------
(***************************************************************************)
(* Clause segmentation (extract_sections) and rule-based risk detection    *)
(* (analyze_text) of icis/app.py.                                          *)
(*                                                                         *)
(* A text is a sequence of one-character strings.  Regular expressions are *)
(* kept as syntax trees that mirror the source patterns and are evaluated  *)
(* by Ends, which returns every position a match can end at, so that       *)
(* re.search / re.match are decided exactly (the patterns use no           *)
(* backreferences).  Every pattern with letters is compiled with re.I:     *)
(* the subject is case-folded once, literals are kept folded and character *)
(* classes are closed under case.                                          *)
(***************************************************************************)
EXTENDS Integers, Sequences, FiniteSets

(***************************************************************************)
(* State: the local variables of each analyze_text call (extract_sections  *)
(* inlined), and pc, the place each call has reached                       *)
(***************************************************************************)
VARIABLES pc, text, lines, i, curr_title, curr_body, sections, si, ri,
          issues, result

vars == <<pc, text, lines, i, curr_title, curr_body, sections, si, ri,
          issues, result>>

(***************************************************************************)
(* Text primitives                                                         *)
(***************************************************************************)
Chars(str) == [k \in 1..Len(str) |-> SubSeq(str, k, k)]

NL == "\n"

UpperSeq == Chars("ABCDEFGHIJKLMNOPQRSTUVWXYZ")
LowerSeq == Chars("abcdefghijklmnopqrstuvwxyz")
UpperSet == {UpperSeq[k] : k \in DOMAIN UpperSeq}
LowerSet == {LowerSeq[k] : k \in DOMAIN LowerSeq}
Digit    == {"0", "1", "2", "3", "4", "5", "6", "7", "8", "9"}
\* \s of the re module (str patterns) on the characters a text can hold
Space    == {" ", "\t", "\n", "\r", "\f"}

ToLower == [ch \in UpperSet |-> LowerSeq[CHOOSE k \in DOMAIN UpperSeq : UpperSeq[k] = ch]]
ToUpper == [ch \in LowerSet |-> UpperSeq[CHOOSE k \in DOMAIN LowerSeq : LowerSeq[k] = ch]]

\* str.lower(), one character
LowerCh(ch) == IF ch \in UpperSet THEN ToLower[ch] ELSE ch

\* str.lower()
Lower(s) == [k \in DOMAIN s |-> LowerCh(s[k])]

\* a character class under re.IGNORECASE: closed under case
IgnoreCase(set) ==
    set \cup {ToLower[ch] : ch \in set \cap UpperSet}
        \cup {ToUpper[ch] : ch \in set \cap LowerSet}

\* the element of a one-element set.  Only({e : x \in {v}}) is e with v for
\* x, and computes v once however often e uses x
Only(set) == CHOOSE r \in set : TRUE

SetMin(set) == CHOOSE k \in set : \A m \in set : k <= m
SetMax(set) == CHOOSE k \in set : \A m \in set : k >= m

\* needle in hay
Contains(hay, needle) ==
    \E p \in 1..(Len(hay) - Len(needle) + 1) :
        \A k \in 1..Len(needle) : hay[p + k - 1] = needle[k]

\* str.strip()
StripVal(s) ==
    Only({IF keep = {} THEN <<>> ELSE SubSeq(s, SetMin(keep), SetMax(keep)) :
             keep \in {{k \in DOMAIN s : s[k] \notin Space}}})

Strip(s) == Only({StripVal(v) : v \in {s}})

RECURSIVE Join(_, _)
\* sep.join(parts)
Join(parts, sep) ==
    IF parts = <<>> THEN <<>>
    ELSE IF Len(parts) = 1 THEN parts[1]
    ELSE parts[1] \o sep \o Join(Tail(parts), sep)

\* sep occurs in s at position p
At(s, p, sep) ==
    /\ p + Len(sep) - 1 <= Len(s)
    /\ \A k \in 1..Len(sep) : s[p + k - 1] = sep[k]

RECURSIVE SplitFrom(_, _, _)
\* str.split(sep): the pieces of s from position from on, cut at the
\* occurrences of sep taken from left to right
SplitFrom(s, sep, from) ==
    Only({IF hits = {} THEN <<SubSeq(s, from, Len(s))>>
          ELSE Only({<<SubSeq(s, from, p - 1)>> \o SplitFrom(s, sep, p + Len(sep)) :
                        p \in {SetMin(hits)}}) :
             hits \in {{p \in from..Len(s) : At(s, p, sep)}}})

Split(s, sep) == Only({SplitFrom(v, sep, 1) : v \in {s}})

RECURSIVE Decimal(_)
\* str(n) of an f-string, n >= 0
Decimal(n) ==
    LET d == Chars("0123456789")[(n % 10) + 1]
    IN  IF n < 10 THEN <<d>> ELSE Decimal(n \div 10) \o <<d>>

(***************************************************************************)
(* Regular expressions                                                     *)
(***************************************************************************)
\* no upper bound of a repetition
Inf == 0 - 1

Lit(str)        == [t |-> "lit", w |-> Lower(Chars(str))] \* literal, IGNORECASE
Cls(set)        == [t |-> "cls", s |-> IgnoreCase(set)] \* [...] , \s, \d
Dot             == [t |-> "any"]                        \* . under re.S
Cat(xs)         == [t |-> "cat", xs |-> xs]
Alt(xs)         == [t |-> "alt", xs |-> xs]
Rep(x, lo, hi)  == [t |-> "rep", x |-> x, lo |-> lo, hi |-> hi]
NotAhead(x)     == [t |-> "nla", x |-> x]               \* (?!x)
Bol             == [t |-> "bol"]                        \* ^ under re.M
Eol             == [t |-> "eol"]                        \* $ under re.M
Opt(x)          == Rep(x, 0, 1)
Star(x)         == Rep(x, 0, Inf)
Plus(x)         == Rep(x, 1, Inf)
WS              == Cls(Space)
DG              == Cls(Digit)

RECURSIVE Ends(_, _, _)
RECURSIVE CatEnds(_, _, _, _)
RECURSIVE RepEnds(_, _, _, _, _, _)

\* the positions at which a match of re that starts at a position of P can end
Ends(re, s, P) ==
    CASE re.t = "lit" ->
            {p + Len(re.w) : p \in {q \in P : At(s, q, re.w)}}
      [] re.t = "cls" -> {p + 1 : p \in {q \in P : q <= Len(s) /\ s[q] \in re.s}}
      [] re.t = "any" -> {p + 1 : p \in {q \in P : q <= Len(s)}}
      [] re.t = "cat" -> CatEnds(re.xs, 1, s, P)
      [] re.t = "alt" -> UNION {Ends(re.xs[k], s, P) : k \in DOMAIN re.xs}
      [] re.t = "rep" -> RepEnds(re.x, s, P, {}, re.lo, re.hi)
      [] re.t = "nla" -> {p \in P : Ends(re.x, s, {p}) = {}}
      [] re.t = "bol" -> {p \in P : p = 1 \/ s[p - 1] = NL}
      [] re.t = "eol" -> {p \in P : p = Len(s) + 1 \/ s[p] = NL}

\* (a set is bound to a name by "Q \in {set}", which computes it once)
CatEnds(xs, k, s, P) ==
    IF k > Len(xs) \/ P = {} THEN P
    ELSE UNION {CatEnds(xs, k + 1, s, Q) : Q \in {Ends(xs[k], s, P)}}

\* the ends of the runs of lo..hi characters of set that start at p
RunEnds(s, p, set, lo, hi) ==
    LET stops == {m \in p..Len(s) : s[m] \notin set}
        run   == IF stops = {} THEN Len(s) + 1
                 ELSE CHOOSE m \in stops : \A k \in stops : m <= k
    IN  (p + lo)..(IF hi = Inf \/ run < p + hi THEN run ELSE p + hi)

\* x{lo,hi}.  For a one-character x: the ends of the runs of lo..hi matching
\* characters.  Otherwise: front holds the positions reached by the
\* repetitions made so far, seen the positions already returned
RepEnds(x, s, front, seen, lo, hi) ==
    IF x.t = "any"
    THEN {q \in 1..(Len(s) + 1) :
            \E p \in front : p + lo <= q /\ (hi = Inf \/ q <= p + hi)}
    ELSE IF x.t = "cls"
    THEN UNION {RunEnds(s, p, x.s, lo, hi) : p \in front}
    ELSE IF lo > 0
    THEN IF front = {} THEN {}
         ELSE UNION {RepEnds(x, s, Q, {}, lo - 1, IF hi = Inf THEN Inf ELSE hi - 1) :
                        Q \in {Ends(x, s, front)}}
    ELSE IF front \subseteq seen \/ hi = 0 THEN seen \cup front
    ELSE UNION {RepEnds(x, s, Q[1], Q[2], 0, IF hi = Inf THEN Inf ELSE hi - 1) :
                   Q \in {<<Ends(x, s, front \ seen), seen \cup front>>}}

\* pattern.search(s) is not None
Search(re, s) == \E f \in {Lower(s)} : Ends(re, f, 1..(Len(f) + 1)) # {}

\* pattern.match(s) is not None
Match(re, s) == \E f \in {Lower(s)} : Ends(re, f, {1}) # {}

(***************************************************************************)
(* Parsing helpers                                                         *)
(***************************************************************************)
\* characters a TLA+ string cannot spell, kept as tokens
BulletCh == "(U+2022)"
QuoteCh  == "(U+2019)"

Letter == UpperSet \cup LowerSet

HEADING_RE ==
    Cat(<<Bol, Star(WS),
          Alt(<<Cat(<<Alt(<<Lit("Section"), Lit("Clause"), Lit("Article")>>),
                      Plus(WS), Plus(DG)>>),
                Cat(<<Plus(DG), Rep(Cat(<<Lit("."), Plus(DG)>>), 0, 3)>>),
                Cat(<<Cls(UpperSet), Cls({".", ")"}), Plus(WS)>>),
                Cat(<<Plus(Cls({"I", "V", "X", "L", "C"})), Lit("."), Plus(WS)>>),
                Cat(<<Cls(UpperSet), Rep(Cls(Letter \cup Space), 2, 30),
                      Opt(Lit(":"))>>)>>),
          Star(WS), Eol>>)

BULLET_RE == Cat(<<Bol, Star(WS), Cls({"-", BulletCh, "*"}), Plus(WS)>>)

\* a character a substitution removes
Gone == "(removed)"
Kept(ch) == ch # Gone

\* re.sub(r"\r\n?", "\n", text)
NormEol(s) ==
    SelectSeq([k \in DOMAIN s |->
                  IF s[k] = "\r" THEN NL
                  ELSE IF s[k] = NL /\ k > 1 /\ s[k - 1] = "\r" THEN Gone
                  ELSE s[k]],
              Kept)

\* re.sub(r"[ \t]+", " ", text)
Collapse(s) ==
    SelectSeq([k \in DOMAIN s |->
                  IF s[k] \in {" ", "\t"}
                  THEN IF k < Len(s) /\ s[k + 1] \in {" ", "\t"} THEN Gone ELSE " "
                  ELSE s[k]],
              Kept)

_split_lines(txt) ==
    LET parts == Split(Collapse(NormEol(txt)), <<NL>>)
    IN  [k \in DOMAIN parts |-> Strip(parts[k])]

\* Optional values: None is the empty tuple, a value v is <<v>>
None    == <<>>
Some(v) == <<v>>

\* flush() of extract_sections: the sections after flushing the current one
Flush(secs, ttl, body) ==
    IF ttl # None \/ body # <<>>
    THEN LET title == IF ttl # None THEN ttl[1] ELSE <<>>
             raw   == title \o <<NL>> \o Join(body, <<NL>>)
         IN  Append(secs,
                    [title |-> Strip(IF ttl # None THEN ttl[1]
                                     ELSE Chars("Untitled")),
                     body  |-> Strip(Join(body, <<NL>>)),
                     raw   |-> Strip(raw)])
    ELSE secs

\* the non-empty stripped pieces, in order
RECURSIVE Paras(_)
Paras(parts) ==
    IF parts = <<>> THEN <<>>
    ELSE Only({IF Strip(Head(parts)) # <<>>
               THEN <<Strip(Head(parts))>> \o Paras(rest)
               ELSE Paras(rest) :
                  rest \in {Tail(parts)}})

\* the paragraph fallback of extract_sections
Fallback(secs) ==
    IF Len(secs) = 1 /\ Lower(secs[1].title) = Chars("untitled")
    THEN Only({[k \in DOMAIN paras |->
                   [title |-> Chars("Para ") \o Decimal(k),
                    body  |-> paras[k],
                    raw   |-> paras[k]]] :
                  paras \in {Paras(Split(secs[1].body, <<NL, NL>>))}})
    ELSE secs

(***************************************************************************)
(* Rules                                                                   *)
(***************************************************************************)
Words(strs) == Alt([k \in DOMAIN strs |-> Lit(strs[k])])

RISK_RULES == <<
  [id |-> Chars("uncapped_liability"), label |-> "Uncapped Liability",
   severity |-> "High", party |-> "Vendor",
   pattern |-> Alt(<<Cat(<<Alt(<<Lit("unlimited"), Lit("uncapped"),
                                 Cat(<<Lit("no"), Plus(WS), Lit("cap")>>)>>),
                           Star(Dot), Lit("liabilit"),
                           Alt(<<Lit("y"), Lit("ies")>>)>>),
                     Cat(<<Lit("liability"), Plus(WS), Lit("shall"), Plus(WS),
                           Lit("be"), Plus(WS), Lit("unlimited")>>)>>),
   suggestion |-> "Cap aggregate liability (e.g., 12 months of fees) and exclude indirect damages except carve-outs (IP, confidentiality).",
   where |-> <<Chars("liability"), Chars("limitation"), Chars("limitation of liability")>>],
  [id |-> Chars("broad_indemnity"), label |-> "Broad/Asymmetric Indemnity",
   severity |-> "Medium", party |-> "Customer",
   pattern |-> Cat(<<Words(<<"customer", "licensee", "employer">>), Rep(Dot, 0, 40),
                     Lit("shall"), Plus(WS), Lit("indemnif"),
                     Alt(<<Lit("y"), Lit("ies")>>), Rep(Dot, 0, 60),
                     Words(<<"any", "all">>), Plus(WS), Lit("claims")>>),
   suggestion |-> "Narrow to third-party IP claims; make indemnity mutual; exclude misuse and unauthorized modifications.",
   where |-> <<Chars("indemnity"), Chars("indemnification")>>],
  [id |-> Chars("ambiguous_t4c"), label |-> "Ambiguous Termination for Convenience",
   severity |-> "Low", party |-> "Shared",
   pattern |-> Cat(<<Lit("terminate"), Plus(WS), Lit("for"), Plus(WS),
                     Lit("convenience"),
                     NotAhead(Cat(<<Star(Dot), Rep(DG, 1, 2), Star(WS), Lit("day")>>))>>),
   suggestion |-> "Define notice period (e.g., 30 days) and any early termination fees or specify none.",
   where |-> <<Chars("termination"), Chars("term"), Chars("termination for convenience")>>],
  [id |-> Chars("narrow_force_majeure"), label |-> "Narrow Force Majeure",
   severity |-> "Medium", party |-> "Shared",
   pattern |-> Cat(<<Lit("force"), Plus(WS), Lit("majeure"),
                     NotAhead(Cat(<<Star(Dot),
                                    Alt(<<Lit("epidemic"), Lit("pandemic"),
                                          Cat(<<Lit("government"), Plus(WS),
                                                Lit("restriction")>>),
                                          Lit("quarantine")>>)>>))>>),
   suggestion |-> "Include epidemics/pandemics and government restrictions; require notice and mitigation.",
   where |-> <<Chars("force majeure"), Chars("excusable delay")>>],
  [id |-> Chars("payment_ambiguity"), label |-> "Ambiguous Payment Schedule",
   severity |-> "High", party |-> "Contractor",
   pattern |-> Cat(<<Words(<<"payment", "remittance", "consideration">>),
                     Rep(Dot, 0, 80), Words(<<"due", "within">>), Star(WS),
                     Opt(Plus(DG)), Star(WS), Opt(Words(<<"days", "day">>))>>),
   negate_if |-> Alt(<<Lit("milestone"), Lit("stage"), Lit("schedule"),
                       Lit("retention"),
                       Cat(<<Lit("bank"), Plus(WS), Lit("details")>>),
                       Cat(<<Lit("invoice"), Plus(WS), Lit("date")>>),
                       Cat(<<Lit("net"), Plus(WS), Plus(DG)>>)>>),
   suggestion |-> "Specify milestone schedule, due dates, invoice reference, bank details; define retention and release trigger.",
   where |-> <<Chars("payment"), Chars("commercials"), Chars("fees")>>],
  [id |-> Chars("uncapped_lds"), label |-> "Uncapped Liquidated Damages",
   severity |-> "High", party |-> "Employer",
   pattern |-> Cat(<<Alt(<<Cat(<<Lit("liquidated"), Plus(WS), Lit("damages")>>),
                           Cat(<<Lit("ld"), Opt(Cls({QuoteCh, "'"})),
                                 Opt(Lit("s"))>>)>>),
                     Rep(Dot, 0, 80),
                     Alt(<<Lit("unlimited"), Lit("uncapped"),
                           Cat(<<Lit("no"), Plus(WS), Lit("cap")>>)>>)>>),
   suggestion |-> "Introduce bilateral cap (e.g., 10% of Contract Price); state LDs are sole remedy for delay.",
   where |-> <<Chars("liquidated damages"), Chars("delay"), Chars("performance security")>>],
  [id |-> Chars("confidentiality_no_carveout"), label |-> "Confidentiality Missing Carve-outs",
   severity |-> "Low", party |-> "Shared",
   pattern |-> Cat(<<Lit("confidential"), Opt(Lit("ity")),
                     NotAhead(Cat(<<Star(Dot),
                                    Alt(<<Lit("public"),
                                          Cat(<<Lit("already"), Plus(WS), Lit("known")>>),
                                          Lit("independent"),
                                          Cat(<<Lit("third"), Plus(WS), Lit("party")>>)>>)>>)),
                     Rep(Dot, 0, 200)>>),
   suggestion |-> "Add carve-outs: public/known, independently developed, or rightfully received from third parties.",
   where |-> <<Chars("confidentiality"), Chars("nda")>>],
  [id |-> Chars("ip_assignment_asymmetry"), label |-> "Asymmetric IP Assignment",
   severity |-> "Medium", party |-> "Vendor",
   pattern |-> Cat(<<Words(<<"assign", "transfer">>), Rep(Dot, 0, 40), Lit("all"),
                     Plus(WS), Lit("ip"), Plus(WS), Lit("rights"),
                     NotAhead(Cat(<<Star(Dot), Lit("license"), Plus(WS), Lit("back")>>))>>),
   suggestion |-> "Use license grant or assignment with license-back; clarify pre-existing IP ownership.",
   where |-> <<Chars("intellectual property"), Chars("ownership"), Chars("ip")>>] >>

TITLE_PREFIX_RE ==
    Cat(<<Plus(DG), Star(Cat(<<Lit("."), Plus(DG)>>)), Opt(Cls({".", ")"})), Star(WS)>>)

\* s[:n]
Prefix(s, n) == SubSeq(s, 1, IF Len(s) < n THEN Len(s) ELSE n)

\* re.sub of the greedy (here: longest) match of the title prefix at the start
_guess_title(sec) ==
    LET e     == Ends(TITLE_PREFIX_RE, Lower(sec.title), {1})
        t     == Strip(IF e = {} THEN sec.title
                       ELSE SubSeq(sec.title, SetMax(e), Len(sec.title)))
        first == Prefix(Split(sec.body, <<".">>)[1], 40)
    IN  Prefix(IF t # <<>> THEN t
               ELSE IF first # <<>> THEN first ELSE Chars("Clause"), 60)

_ctx(sec, where) ==
    \E raw \in {Lower(sec.raw)} :
        \E k \in DOMAIN where : Contains(raw, Lower(where[k]))

\* faulty variant: negate_if is not consulted
RuleOutcome_noNegate(sec, rule) ==
    IF "where" \in DOMAIN rule /\ ~_ctx(sec, rule.where) THEN "no_context"
    ELSE IF ~Search(rule.pattern, sec.raw) THEN "no_match"
    ELSE "issue"

\* the branch analyze_text takes for one (section, rule) pair
RuleOutcome(sec, rule) ==
    IF "where" \in DOMAIN rule /\ ~_ctx(sec, rule.where) THEN "no_context"
    ELSE IF ~Search(rule.pattern, sec.raw) THEN "no_match"
    ELSE IF "negate_if" \in DOMAIN rule /\ Search(rule.negate_if, sec.raw)
         THEN "negated"
    ELSE "issue"

\* faulty variant: one counter shared by all the calls
NextSeq_shared(iss) ==
    Cardinality(UNION {{<<c, k>> : k \in DOMAIN issues[c]} : c \in DOMAIN issues}) + 1

\* len(issues)+1: the n of the id of the issue about to be emitted
NextSeq(iss) == Len(iss) + 1

\* faulty variant: issues.insert(0, issue)
AddIssue_front(iss, issue) == <<issue>> \o iss

\* issues.append(issue)
AddIssue(iss, issue) == Append(iss, issue)

\* the issue dict of analyze_text; sec is a history field (the index of the
\* section in document order), not a key of the dict
Issue(iss, secs, k, rule) ==
    [id         |-> rule.id \o <<"-">> \o Decimal(NextSeq(iss)),
     clause     |-> _guess_title(secs[k]),
     issue      |-> rule.label,
     risk       |-> rule.severity,
     party      |-> rule.party,
     suggestion |-> rule.suggestion,
     sec        |-> k]

\* faulty variant: the Low count compares with "low"
CountRisk_lowercase(iss, sev) ==
    Cardinality({k \in DOMAIN iss : iss[k].risk = IF sev = "Low" THEN "low" ELSE sev})

\* sum(i["risk"] == sev for i in issues)
CountRisk(iss, sev) == Cardinality({k \in DOMAIN iss : iss[k].risk = sev})

\* the dict analyze_text returns
Result(iss) ==
    [summary |-> Decimal(Len(iss)) \o Chars(" issues detected (")
                 \o Decimal(CountRisk(iss, "High")) \o Chars(" High, ")
                 \o Decimal(CountRisk(iss, "Medium")) \o Chars(" Medium, ")
                 \o Decimal(CountRisk(iss, "Low")) \o Chars(" Low)."),
     issues  |-> iss]

(***************************************************************************)
(* Inputs                                                                  *)
(***************************************************************************)
\* the number of fragments a request text is made of, at most
MaxFrags == 2
\* the number of requests served in parallel
NumCalls == 2

Calls == 1..NumCalls

\* pieces of contract text: lines, clauses and paragraphs.  The two numbered
\* clauses are the default text of api_analyze (lines 176-177).
Frags == {Chars(NL),
          Chars("Untitled\n"),
          Chars("3. Payment Terms\nPayment is due promptly. Retention later.\n\n"),
          Chars("7. Limitation of Liability\nLiability shall be unlimited in all cases.\n"),
          Chars("- item\r\n"),
          Chars("B)\n"),
          Chars("IV.\n"),
          Chars("Force majeure covers pandemic. Force majeure applies.\n"),
          Chars("Force majeure covers pandemic.\n"),
          Chars("Force Majeure\n"),
          Chars("\tPayment  due \r"),
          Chars("Indemnity: Customer shall indemnify any claims.\n"),
          Chars("Vendor may terminate for convenience.\nLDs for delay are uncapped.\n\n"),
          Chars("NDA: confidential.\n"),
          Chars("Assign all IP rights.\n"),
          Chars("Unlimited liabilities\nForce majeure applies.\n")}

\* the fragments of the texts whose analysis is followed to its end: blank
\* lines, headings, a bullet, paragraphs, and issues of every severity
RunFrags == {Chars(NL),
             Chars("Untitled\n"),
             Chars("3. Payment Terms\nPayment is due promptly. Retention later.\n\n"),
             Chars("7. Limitation of Liability\nLiability shall be unlimited in all cases.\n"),
             Chars("- item\r\n"),
             Chars("Force Majeure\n"),
             Chars("Indemnity: Customer shall indemnify any claims.\n"),
             Chars("Vendor may terminate for convenience.\nLDs for delay are uncapped.\n\n")}

RECURSIVE Texts(_, _)
\* the texts made of n fragments of frags
Texts(frags, n) == IF n = 0 THEN {<<>>}
                   ELSE {f \o t : f \in frags, t \in Texts(frags, n - 1)}

Inputs == UNION {Texts(Frags, n) : n \in 0..MaxFrags}

RunInputs == UNION {Texts(RunFrags, n) : n \in 0..MaxFrags}

\* the request texts of the parallel requests
ParInputs == {Chars("Payment Terms\n- Payment is due.\n\nNet 30 days"),
              Chars("Payment due\nLiability shall be unlimited.\n- x")}

Init ==
    /\ pc         = [c \in Calls |-> "idle"]
    /\ text       = [c \in Calls |-> <<>>]
    /\ lines      = [c \in Calls |-> <<>>]
    /\ i          = [c \in Calls |-> 1]
    /\ curr_title = [c \in Calls |-> None]
    /\ curr_body  = [c \in Calls |-> <<>>]
    /\ sections   = [c \in Calls |-> <<>>]
    /\ si         = [c \in Calls |-> 1]
    /\ ri         = [c \in Calls |-> 1]
    /\ issues     = [c \in Calls |-> <<>>]
    /\ result     = [c \in Calls |-> None]

\* analyze_text(t) is entered, for a text t of inputs, and extract_sections
\* splits t into lines
Call(c, inputs) ==
    /\ pc[c] = "idle"
    /\ \E t \in inputs :
          /\ text'  = [text EXCEPT ![c] = t]
          /\ lines' = [lines EXCEPT ![c] = _split_lines(t)]
    /\ pc' = [pc EXCEPT ![c] = "scan"]
    /\ UNCHANGED <<i, curr_title, curr_body, sections, si, ri, issues, result>>

Scanning(c) == pc[c] = "scan" /\ i[c] <= Len(lines[c])
Ln(c)       == lines[c][i[c]]

\* the branch lines 79-83 take for the line ln, the body being curr_body
LineKind(body, ln) ==
    IF ln = <<>> /\ body # <<>> /\ body[Len(body)] # <<>> THEN "blank"
    ELSE IF Match(HEADING_RE, ln) THEN "heading"
    ELSE IF Match(BULLET_RE, ln) /\ body # <<>> THEN "bullet"
    ELSE "other"

\* curr_body.append(ln); continue
AppendLine(c) ==
    /\ curr_body' = [curr_body EXCEPT ![c] = Append(@, Ln(c))]
    /\ UNCHANGED <<curr_title, sections>>

\* line 81: flush(); curr_title=ln; curr_body=[]; continue
StartSection(c) ==
    /\ sections'   = [sections EXCEPT ![c] = Flush(@, curr_title[c], curr_body[c])]
    /\ curr_title' = [curr_title EXCEPT ![c] = Some(Ln(c))]
    /\ curr_body'  = [curr_body EXCEPT ![c] = <<>>]

\* lines 78-83: one iteration of the loop over the lines
\* (kind \in {e} names the branch, computed once)
ScanLine(c) ==
    /\ Scanning(c)
    /\ \E kind \in {LineKind(curr_body[c], Ln(c))} :
           \/ kind = "blank" /\ AppendLine(c)
           \/ kind = "heading" /\ StartSection(c)
           \/ kind = "bullet" /\ AppendLine(c)
           \/ kind = "other" /\ AppendLine(c)
    /\ i' = [i EXCEPT ![c] = @ + 1]
    /\ UNCHANGED <<pc, text, lines, si, ri, issues, result>>

\* lines 84-88: the last flush and the paragraph fallback; analyze_text then
\* starts its loops
EndScan(c) ==
    /\ pc[c] = "scan" /\ i[c] > Len(lines[c])
    /\ \E secs \in {Flush(sections[c], curr_title[c], curr_body[c])} :
          \E out \in {Fallback(secs)} :
             sections' = [sections EXCEPT ![c] = out]
    /\ pc' = [pc EXCEPT ![c] = "rules"]
    /\ UNCHANGED <<text, lines, i, curr_title, curr_body, si, ri, issues, result>>

Checking(c) == pc[c] = "rules" /\ si[c] <= Len(sections[c])

\* lines 141-144
Emit(c) ==
    issues' = [issues EXCEPT ![c] =
                  AddIssue(@, Issue(@, sections[c], si[c], RISK_RULES[ri[c]]))]

\* lines 137-144: one iteration of: for sec in sections: for rule in RISK_RULES
CheckRule(c) ==
    /\ Checking(c)
    /\ \E o \in {RuleOutcome(sections[c][si[c]], RISK_RULES[ri[c]])} :
           \/ o = "no_context" /\ UNCHANGED issues
           \/ o = "no_match" /\ UNCHANGED issues
           \/ o = "negated" /\ UNCHANGED issues
           \/ o = "issue" /\ Emit(c)
    /\ ri' = [ri EXCEPT ![c] = IF @ < Len(RISK_RULES) THEN @ + 1 ELSE 1]
    /\ si' = [si EXCEPT ![c] = IF ri[c] < Len(RISK_RULES) THEN @ ELSE @ + 1]
    /\ UNCHANGED <<pc, text, lines, i, curr_title, curr_body, sections, result>>

\* lines 145-146
Summarize(c) ==
    /\ pc[c] = "rules" /\ si[c] > Len(sections[c])
    /\ result' = [result EXCEPT ![c] = Some(Result(issues[c]))]
    /\ pc' = [pc EXCEPT ![c] = "done"]
    /\ UNCHANGED <<text, lines, i, curr_title, curr_body, sections, si, ri, issues>>

Step(c) ==
    \/ ScanLine(c)
    \/ EndScan(c)
    \/ CheckRule(c)
    \/ Summarize(c)

\* one request, any input
Next == Call(1, Inputs) \/ Step(1)

Spec == Init /\ [][Next]_vars

NextRun == Call(1, RunInputs) \/ Step(1)

\* one request, and a call that has started keeps running: it is not
\* suspended for ever (no request need ever arrive)
FairSpec == Init /\ [][NextRun]_vars /\ WF_vars(Step(1))

\* NumCalls requests in parallel, each with its own locals
NextPar == \E c \in Calls : Call(c, ParInputs) \/ Step(c)

SpecPar == Init /\ [][NextPar]_vars

(***************************************************************************)
(* Properties                                                              *)
(***************************************************************************)
Done(c) == pc[c] = "done"

RuleIndex(issue) == CHOOSE r \in DOMAIN RISK_RULES : RISK_RULES[r].label = issue.issue

DigitVal(ch) == CHOOSE d \in 0..9 : Chars("0123456789")[d + 1] = ch

RECURSIVE ParseNat(_)
\* the number a digit string spells
ParseNat(ds) ==
    IF ds = <<>> THEN 0
    ELSE 10 * ParseNat(SubSeq(ds, 1, Len(ds) - 1)) + DigitVal(ds[Len(ds)])

IsNumber(ds) == ds # <<>> /\ \A k \in DOMAIN ds : ds[k] \in Digit

LastDash(id) == CHOOSE p \in DOMAIN id : id[p] = "-" /\ \A q \in (p + 1)..Len(id) : id[q] # "-"
IdPrefix(id) == SubSeq(id, 1, LastDash(id) - 1)
IdSuffix(id) == SubSeq(id, LastDash(id) + 1, Len(id))

\* the numbers a text spells, in order
NumberStarts(s) == {p \in DOMAIN s : s[p] \in Digit /\ (p = 1 \/ s[p - 1] \notin Digit)}
NumberAt(s, p) ==
    ParseNat(SubSeq(s, p, CHOOSE q \in p..Len(s) :
                              /\ \A m \in p..q : s[m] \in Digit
                              /\ q = Len(s) \/ s[q + 1] \notin Digit))
Numbers(s) ==
    [n \in 1..Cardinality(NumberStarts(s)) |->
        NumberAt(s, CHOOSE p \in NumberStarts(s) :
                        Cardinality({q \in NumberStarts(s) : q <= p}) = n)]

\* (a), (b) and (c) of C1 for the section sec and the rule
Applies(sec, rule) ==
    /\ \/ "where" \notin DOMAIN rule
       \/ \E k \in DOMAIN rule.where : Contains(Lower(sec.raw), Lower(rule.where[k]))
    /\ Search(rule.pattern, sec.raw)
    /\ \/ "negate_if" \notin DOMAIN rule
       \/ ~Search(rule.negate_if, sec.raw)

IssuesFor(c, k, r) ==
    {n \in DOMAIN issues[c] :
        issues[c][n].sec = k /\ issues[c][n].issue = RISK_RULES[r].label}

\* C1: once analyze_text has returned, each pair (section, rule) has exactly
\* one issue if the rule's context (if any) occurs in the section's raw, its
\* pattern matches raw and its negate_if (if any) does not, and no issue
\* otherwise; every issue belongs to such a pair and carries the rule's
\* label, severity, party and suggestion.
C1_IssueIffContextMatchNotNegated ==
    \A c \in Calls : Done(c) =>
        /\ result[c][1].issues = issues[c]
        /\ \A k \in DOMAIN sections[c], r \in DOMAIN RISK_RULES :
              Cardinality(IssuesFor(c, k, r)) =
                  IF Applies(sections[c][k], RISK_RULES[r]) THEN 1 ELSE 0
        /\ \A n \in DOMAIN issues[c] :
              \E k \in DOMAIN sections[c], r \in DOMAIN RISK_RULES :
                  /\ n \in IssuesFor(c, k, r)
                  /\ issues[c][n].risk = RISK_RULES[r].severity
                  /\ issues[c][n].party = RISK_RULES[r].party
                  /\ issues[c][n].suggestion = RISK_RULES[r].suggestion

\* an analysis that emitted an issue, skipped a rule whose pattern matches for
\* lack of context, and skipped a matching rule for its negate_if
C1_Witness ==
    \E c \in Calls :
        /\ Done(c) /\ issues[c] # <<>>
        /\ \E k \in DOMAIN sections[c], r \in DOMAIN RISK_RULES :
              /\ Search(RISK_RULES[r].pattern, sections[c][k].raw)
              /\ ~_ctx(sections[c][k], RISK_RULES[r].where)
        /\ \E k \in DOMAIN sections[c], r \in DOMAIN RISK_RULES :
              /\ _ctx(sections[c][k], RISK_RULES[r].where)
              /\ Search(RISK_RULES[r].pattern, sections[c][k].raw)
              /\ "negate_if" \in DOMAIN RISK_RULES[r]
              /\ Search(RISK_RULES[r].negate_if, sections[c][k].raw)

ExampleText ==
    Chars("7. Limitation of Liability\nLiability shall be unlimited in all cases.\n")

\* C2: the example text yields one section titled "Limitation of Liability"
\* and one issue, uncapped_liability-1, High, Vendor.
C2_Example ==
    \A c \in Calls : (Done(c) /\ text[c] = ExampleText) =>
        /\ Len(sections[c]) = 1
        /\ sections[c][1].title = Chars("Limitation of Liability")
        /\ Len(issues[c]) = 1
        /\ issues[c][1].id = Chars("uncapped_liability-1")
        /\ issues[c][1].risk = "High"
        /\ issues[c][1].party = "Vendor"

ForceMajeure == Chars("force majeure")
Triggers == {Chars("epidemic"), Chars("pandemic"), Chars("government restriction"),
             Chars("quarantine")}

\* "force majeure" occurs in raw and a trigger word occurs later
TriggerFollows(raw) ==
    \E p, q \in DOMAIN raw :
        /\ At(Lower(raw), p, ForceMajeure)
        /\ q >= p + Len(ForceMajeure)
        /\ \E w \in Triggers : At(Lower(raw), q, w)

HasNarrowForceMajeure(c, k) ==
    \E n \in DOMAIN issues[c] :
        issues[c][n].sec = k /\ issues[c][n].issue = "Narrow Force Majeure"

\* C3: a section in which "force majeure" is followed later by a trigger word
\* gets no narrow_force_majeure issue; a section with "force majeure" and no
\* trigger word gets one.
C3_ForceMajeureNegation ==
    \A c \in Calls : Done(c) =>
        \A k \in DOMAIN sections[c] :
            LET raw == sections[c][k].raw
            IN  /\ TriggerFollows(raw) => ~HasNarrowForceMajeure(c, k)
                /\ (/\ Contains(Lower(raw), ForceMajeure)
                    /\ \A w \in Triggers : ~Contains(Lower(raw), w))
                   => HasNarrowForceMajeure(c, k)

\* C4: a text with a non-whitespace character yields at least one section.
C4_SegmentationTotal ==
    \A c \in Calls :
        (pc[c] \in {"rules", "done"} /\ \E p \in DOMAIN text[c] : text[c][p] \notin Space)
            => Len(sections[c]) >= 1

\* C5: issues of an earlier section precede those of a later one, and the
\* issues of one section are in catalog order.
C5_SectionThenCatalogOrder ==
    \A c \in Calls : \A n, m \in DOMAIN issues[c] :
        n < m =>
            \/ issues[c][n].sec < issues[c][m].sec
            \/ /\ issues[c][n].sec = issues[c][m].sec
               /\ RuleIndex(issues[c][n]) < RuleIndex(issues[c][m])

\* a returned analysis with two issues of one section and issues of two sections
C5_Witness ==
    \E c \in Calls :
        /\ Done(c)
        /\ \E n, m \in DOMAIN issues[c] : n < m /\ issues[c][n].sec = issues[c][m].sec
        /\ \E n, m \in DOMAIN issues[c] : issues[c][n].sec < issues[c][m].sec

SummaryAddsUp(c) ==
    LET nums == Numbers(result[c][1].summary)
    IN  /\ Len(nums) = 4
        /\ nums[1] = Len(result[c][1].issues)
        /\ nums[1] = nums[2] + nums[3] + nums[4]
        /\ \A n \in DOMAIN result[c][1].issues :
              result[c][1].issues[n].risk \in {"High", "Medium", "Low"}

\* C7: analyze_text returns, and the total of the summary is the number of
\* issues and the sum of its High, Medium and Low counts.
C7_TerminatesAndSummaryAddsUp ==
    /\ (pc[1] # "idle") ~> Done(1)
    /\ [](\A c \in Calls : Done(c) => SummaryAddsUp(c))

\* a returned analysis with issues of all three severities
C7_Witness ==
    \E c \in Calls :
        /\ Done(c)
        /\ \A sev \in {"High", "Medium", "Low"} :
              \E n \in DOMAIN issues[c] : issues[c][n].risk = sev

NoAdjacentBlanks(body) ==
    \A k \in 1..(Len(body) - 1) : ~(body[k] = <<>> /\ body[k + 1] = <<>>)

\* C8: a step that consumes a blank line flushes nothing and appends it only
\* after a non-blank body line; no body ever holds two adjacent blanks.
C8_BlankLinesCollapsed ==
    [][\A c \in Calls :
          /\ NoAdjacentBlanks(curr_body'[c])
          /\ (Scanning(c) /\ Ln(c) = <<>> /\ i'[c] # i[c]) =>
                /\ sections'[c] = sections[c]
                /\ curr_title'[c] = curr_title[c]
                /\ \/ curr_body'[c] = curr_body[c]
                   \/ curr_body[c] = <<>>
                   \/ curr_body[c][Len(curr_body[c])] # <<>>]_vars

\* C9: a bullet line met while the body is empty is not appended, so no body
\* starts with a bullet line.
C9_NoBodyStartsWithBullet ==
    \A c \in Calls : curr_body[c] # <<>> => ~Match(BULLET_RE, curr_body[c][1])

\* "A.", "B)", "IV.": a capital letter and '.' or ')', or a Roman numeral and '.'
IsOutlineLabel(ln) ==
    \/ Len(ln) = 2 /\ ln[1] \in UpperSet /\ ln[2] \in {".", ")"}
    \/ /\ Len(ln) >= 2 /\ ln[Len(ln)] = "."
       /\ \A k \in 1..(Len(ln) - 1) : ln[k] \in {"I", "V", "X", "L", "C"}

\* C10: the line scan treats an outline label as a heading: right after it,
\* it is the current title and the body is empty.
C10_OutlineLabelIsHeading ==
    \A c \in Calls :
        (pc[c] = "scan" /\ i[c] > 1 /\ IsOutlineLabel(lines[c][i[c] - 1]))
            => curr_title[c] = Some(lines[c][i[c] - 1]) /\ curr_body[c] = <<>>

=============================================================================
